---- MODULE Spec2Model ----
(***************************************************************************)
(* Model of imap_block: the Backoff sequencer (src/src/backoff.rs and the  *)
(* copy embedded in src/src/main.rs) and the Mailbox Watcher loop of       *)
(* main() in src/src/main.rs.                                              *)
(*                                                                         *)
(* The specifications share one set of variables:                          *)
(*   Spec         the Watcher (main): its start-up on main.rs's own         *)
(*                from_mutt, then the loop driving main.rs's own Backoff    *)
(*   SpecLive     Spec with the fairness the idle timeout provides          *)
(*   SpecBackoff  a Backoff of backoff.rs under arbitrary next()/reset()    *)
(*   SpecMainBackoff  the Backoff of main.rs under arbitrary next()/reset() *)
(*   SpecStdin    Creds::from_stdin (creds.rs) on bounded line streams      *)
(*   SpecMutt     Creds::from_mutt (creds.rs) on bounded files              *)
(***************************************************************************)
EXTENDS Integers, Sequences, FiniteSets, TLC

\* ---------------------------------------------------------------- bounds
\* longest run of the Watcher that is explored (number of steps of main)
MaxLog == 24
\* unread counts a search may report are 0..MaxCount
MaxCount == 1
\* schedules given to a stand-alone Backoff have 0..MaxLen entries
MaxLen == 3
\* delays of a stand-alone schedule are 1..MaxDelay
MaxDelay == 3
\* next() calls explored between two resets of a stand-alone Backoff
MaxCalls == 5
\* reset() calls explored on a stand-alone Backoff
MaxResets == 2
\* lines after the password line in a stream given to from_stdin
MaxLines == 2
\* lines of a file given to from_mutt
MaxFileLines == 2

\* ------------------------------------------------------ program constants
POLL == 300
KEEP_ALIVE == 1700
\* the schedule main() passes to Backoff::new
Schedule == <<0, 60, 120, 500, 600>>

VARIABLES
    pc,         \* Watcher: position of main() (the await it is suspended on)
    backoff,    \* Watcher: the Backoff owned by main(), [i, v]
    can_idle,   \* Watcher: result of the capability probe of this connection
    exitCode,   \* Watcher: -1 while running, else the process exit status
    log,        \* Watcher: history of the steps taken, oldest first
    stdout,     \* Watcher: the lines printed by dump_status, oldest first
    b,          \* stand-alone Backoff under test, [i, v]
    bstat,      \* stand-alone Backoff: "ok", or "panicked" once a call panicked
    rets,       \* stand-alone Backoff: values returned by next() since the
                \* last reset() (or since construction)
    nresets,    \* stand-alone Backoff: number of reset() calls so far
    ncalls,     \* stand-alone Backoff: next() calls made, in total
    nrets,      \* stand-alone Backoff: next() calls that returned, in total
    cinput,     \* Creds: the input handed to the resolver, as it was built
    cin,        \* Creds: what is left to read (characters of stdin, or
                \* lines of the file)
    cred,       \* Creds: the local variables host, port, user, pass
    cstat       \* Creds: "idle", the position of the resolver, or its
                \* outcome "ok" / "err" / "panic"

vars == <<pc, backoff, can_idle, exitCode, log, stdout,
          b, bstat, rets, nresets, ncalls, nrets,
          cinput, cin, cred, cstat>>
wvars == <<pc, backoff, can_idle, exitCode, log, stdout>>
bvars == <<b, bstat, rets, nresets, ncalls, nrets>>
cvars == <<cinput, cin, cred, cstat>>

Min(x, y) == IF x < y THEN x ELSE y

\* ------------------------------------------------------------ Backoff
\* A Backoff is [i |-> cursor (0-based, as in the source), v |-> slice].
\* next() yields [panic, ret, b]: panic is TRUE when v[i] is out of bounds
\* (Rust aborts the call with a panic and nothing is returned).

\* backoff.rs: Backoff::new
BackoffNew(v) == [i |-> 0, v |-> v]

\* Backoff::next as it would be if an out-of-range cursor yielded a default
\* delay (v.get(i).unwrap_or(0)) instead of panicking
BackoffNextDefault(s) ==
    IF s.i >= Len(s.v)
    THEN [panic |-> FALSE, ret |-> 0, b |-> s]
    ELSE [panic |-> FALSE,
          ret |-> s.v[s.i + 1],
          b |-> [s EXCEPT !.i = Min(s.i + 1, Len(s.v) - 1)]]

\* backoff.rs: Backoff::next
BackoffNext(s) ==
    IF s.i >= Len(s.v)
    THEN [panic |-> TRUE, ret |-> 0, b |-> s]
    ELSE [panic |-> FALSE,
          ret |-> s.v[s.i + 1],
          b |-> [s EXCEPT !.i = Min(s.i + 1, Len(s.v) - 1)]]

\* Backoff::reset as it would be if it left the cursor where it is
BackoffResetKeeps(s) == s

\* backoff.rs: Backoff::reset
BackoffReset(s) == [s EXCEPT !.i = 0]

\* main.rs: Backoff::new
MainBackoffNew(v) == [i |-> 0, v |-> v]

\* main.rs Backoff::next as it would be if it forgot to advance the cursor
MainBackoffNextStuck(s) ==
    IF s.i >= Len(s.v)
    THEN [panic |-> TRUE, ret |-> 0, b |-> s]
    ELSE [panic |-> FALSE, ret |-> s.v[s.i + 1], b |-> s]

\* main.rs: Backoff::next  (the clamp is v.len(), not v.len() - 1)
MainBackoffNext(s) ==
    IF s.i >= Len(s.v)
    THEN [panic |-> TRUE, ret |-> 0, b |-> s]
    ELSE [panic |-> FALSE,
          ret |-> s.v[s.i + 1],
          b |-> [s EXCEPT !.i = Min(s.i + 1, Len(s.v))]]

\* main.rs Backoff::reset as it would be if it left the cursor where it is
MainBackoffResetKeeps(s) == s

\* main.rs: Backoff::reset
MainBackoffReset(s) == [s EXCEPT !.i = 0]

\* ------------------------------------------------------------ dump_status
\* dump_status yields [panic, line]: the JSON line as its two fields, and
\* panic TRUE when println! cannot write it to stdout (full device, broken
\* pipe): nothing is printed and the process ends with status 101.

\* dump_status as it would be with the comparison off by one (count >= 0)
dump_statusAlways(count, writable) ==
    [panic |-> ~writable,
     line |-> [text |-> count, percentage |-> IF count >= 0 THEN 100 ELSE 0]]

\* main.rs:90-93  dump_status
dump_status(count, writable) ==
    [panic |-> ~writable,
     line |-> [text |-> count, percentage |-> IF count > 0 THEN 100 ELSE 0]]

\* ------------------------------------------------------------ Watcher
Ev(op, res, n) == [op |-> op, res |-> res, n |-> n]

Counts == 0..MaxCount

\* main.rs:96-99  main() is entered; the Backoff of line 118 is shown as
\* it will be built, its schedule being a constant of the program
WInit ==
    /\ pc = "Start"
    /\ backoff = MainBackoffNew(Schedule)
    /\ can_idle = FALSE
    /\ exitCode = -1
    /\ log = <<>>
    /\ stdout = <<>>

BIdle ==
    /\ b = BackoffNew(<<>>)
    /\ bstat = "ok"
    /\ rets = <<>>
    /\ nresets = 0
    /\ ncalls = 0
    /\ nrets = 0

\* creds.rs:17-20, 51-54: the resolver's locals before anything is read
CredsDefault == [host |-> <<>>, port |-> 993, user |-> <<>>, pass |-> <<>>]

CIdle ==
    /\ cinput = [kind |-> "none"]
    /\ cin = <<>>
    /\ cred = CredsDefault
    /\ cstat = "idle"

\* main.rs:120  sleep(Duration::from_secs(backoff.next())).await
Sleep ==
    /\ pc = "Disconnected"
    /\ Len(log) < MaxLog
    /\ LET r == MainBackoffNext(backoff) IN
       IF r.panic
       THEN /\ pc' = "panicked"
            /\ exitCode' = 101
            /\ log' = Append(log, Ev("sleep", "panic", 0))
            /\ UNCHANGED backoff
       ELSE /\ pc' = "Connecting"
            /\ backoff' = r.b
            /\ log' = Append(log, Ev("sleep", "ok", r.ret))
            /\ UNCHANGED exitCode
    /\ UNCHANGED <<can_idle, stdout>>
    /\ UNCHANGED bvars
    /\ UNCHANGED cvars

\* main.rs:121-129  async_imap::connect: TCP connect, TLS handshake and
\* greeting in one call; every Err takes the same arm
Connect ==
    /\ pc = "Connecting"
    /\ Len(log) < MaxLog
    /\ \E res \in {"ok", "io", "tls"} :
          /\ log' = Append(log, Ev("connect", res, 0))
          /\ pc' = IF res = "ok" THEN "Authenticating" ELSE "Disconnected"
    /\ UNCHANGED <<backoff, can_idle, exitCode, stdout>>
    /\ UNCHANGED bvars
    /\ UNCHANGED cvars

\* the login step as it would be if a rejected login were retried like a
\* failed connect (continue 'retrying) instead of exiting
LoginRetries ==
    /\ pc = "Authenticating"
    /\ Len(log) < MaxLog
    /\ \E res \in {"ok", "err"} :
          /\ log' = Append(log, Ev("login", res, 0))
          /\ pc' = IF res = "ok" THEN "ProbingCapabilities" ELSE "Disconnected"
    /\ UNCHANGED <<backoff, can_idle, exitCode, stdout>>
    /\ UNCHANGED bvars
    /\ UNCHANGED cvars

\* main.rs:130-136  c.login
Login ==
    /\ pc = "Authenticating"
    /\ Len(log) < MaxLog
    /\ \E res \in {"ok", "err"} :
          /\ log' = Append(log, Ev("login", res, 0))
          /\ IF res = "ok"
             THEN pc' = "ProbingCapabilities" /\ UNCHANGED exitCode
             ELSE pc' = "exited" /\ exitCode' = 2
    /\ UNCHANGED <<backoff, can_idle, stdout>>
    /\ UNCHANGED bvars
    /\ UNCHANGED cvars

\* the capability probe as it would be if can_idle lived outside the
\* 'retrying loop and were only ever raised
CapabilitiesSticky ==
    /\ pc = "ProbingCapabilities"
    /\ Len(log) < MaxLog
    /\ \E res \in {"idle", "noidle", "err"} :
          /\ log' = Append(log, Ev("capabilities", res, 0))
          /\ IF res = "err"
             THEN pc' = "exited" /\ exitCode' = 2 /\ UNCHANGED can_idle
             ELSE /\ pc' = "SelectingMailbox"
                  /\ can_idle' = (can_idle \/ res = "idle")
                  /\ UNCHANGED exitCode
    /\ UNCHANGED <<backoff, stdout>>
    /\ UNCHANGED bvars
    /\ UNCHANGED cvars

\* main.rs:139-145  s.capabilities
Capabilities ==
    /\ pc = "ProbingCapabilities"
    /\ Len(log) < MaxLog
    /\ \E res \in {"idle", "noidle", "err"} :
          /\ log' = Append(log, Ev("capabilities", res, 0))
          /\ IF res = "err"
             THEN pc' = "exited" /\ exitCode' = 2 /\ UNCHANGED can_idle
             ELSE /\ pc' = "SelectingMailbox"
                  /\ can_idle' = (res = "idle")
                  /\ UNCHANGED exitCode
    /\ UNCHANGED <<backoff, stdout>>
    /\ UNCHANGED bvars
    /\ UNCHANGED cvars

\* main.rs:148-154  s.examine("INBOX")
Examine ==
    /\ pc = "SelectingMailbox"
    /\ Len(log) < MaxLog
    /\ \E res \in {"ok", "err"} :
          /\ log' = Append(log, Ev("examine", res, 0))
          /\ pc' = IF res = "ok" THEN "Observing" ELSE "Disconnected"
    /\ UNCHANGED <<backoff, can_idle, exitCode, stdout>>
    /\ UNCHANGED bvars
    /\ UNCHANGED cvars

\* the observe step as it would be if it printed only a count that differs
\* from the last one printed
SearchDedup ==
    /\ pc = "Observing"
    /\ Len(log) < MaxLog
    /\ \/ /\ log' = Append(log, Ev("search", "err", 0))
          /\ pc' = "Disconnected"
          /\ UNCHANGED <<backoff, stdout, exitCode>>
       \/ \E count \in Counts, writable \in BOOLEAN :
          LET d == dump_status(count, writable)
              same == stdout # <<>> /\ stdout[Len(stdout)].text = count
          IN  IF ~same /\ d.panic
              THEN /\ log' = Append(log, Ev("search", "panic", count))
                   /\ pc' = "panicked"
                   /\ exitCode' = 101
                   /\ UNCHANGED <<backoff, stdout>>
              ELSE /\ log' = Append(log, Ev("search", "ok", count))
                   /\ stdout' = IF same THEN stdout ELSE Append(stdout, d.line)
                   /\ backoff' = MainBackoffReset(backoff)
                   /\ pc' = IF ~can_idle THEN "Polling" ELSE "IdleInit"
                   /\ UNCHANGED exitCode
    /\ UNCHANGED can_idle
    /\ UNCHANGED bvars
    /\ UNCHANGED cvars

\* main.rs:157-171  s.search("UNSEEN"), dump_status, backoff.reset and the
\* choice between polling and idling. A search that fails is "err"; one
\* that succeeds is "ok" when its line is printed, and "panic" when the
\* print fails: the process ends there, before backoff.reset()
Search ==
    /\ pc = "Observing"
    /\ Len(log) < MaxLog
    /\ \/ /\ log' = Append(log, Ev("search", "err", 0))
          /\ pc' = "Disconnected"
          /\ UNCHANGED <<backoff, stdout, exitCode>>
       \/ \E count \in Counts, writable \in BOOLEAN :
          LET d == dump_status(count, writable) IN
          IF d.panic
          THEN /\ log' = Append(log, Ev("search", "panic", count))
               /\ pc' = "panicked"
               /\ exitCode' = 101
               /\ UNCHANGED <<backoff, stdout>>
          ELSE /\ log' = Append(log, Ev("search", "ok", count))
               /\ stdout' = Append(stdout, d.line)
               /\ backoff' = MainBackoffReset(backoff)
               /\ pc' = IF ~can_idle THEN "Polling" ELSE "IdleInit"
               /\ UNCHANGED exitCode
    /\ UNCHANGED can_idle
    /\ UNCHANGED bvars
    /\ UNCHANGED cvars

\* main.rs:169-170  sleep(POLL); continue 'poll
PollSleep ==
    /\ pc = "Polling"
    /\ Len(log) < MaxLog
    /\ log' = Append(log, Ev("poll_sleep", "ok", POLL))
    /\ pc' = "Observing"
    /\ UNCHANGED <<backoff, can_idle, exitCode, stdout>>
    /\ UNCHANGED bvars
    /\ UNCHANGED cvars

\* main.rs:174-178  idle.init
IdleInit ==
    /\ pc = "IdleInit"
    /\ Len(log) < MaxLog
    /\ \E res \in {"ok", "err"} :
          /\ log' = Append(log, Ev("idle_init", res, 0))
          /\ pc' = IF res = "ok" THEN "Idling" ELSE "Disconnected"
    /\ UNCHANGED <<backoff, can_idle, exitCode, stdout>>
    /\ UNCHANGED bvars
    /\ UNCHANGED cvars

\* the idle wait as it would be without its own timeout (idle.wait()): it
\* returns only when the server sends something or the connection fails
IdleWaitNoTimeout ==
    /\ pc = "Idling"
    /\ Len(log) < MaxLog
    /\ \E res \in {"notify", "err"} :
          /\ log' = Append(log, Ev("idle_wait", res, KEEP_ALIVE))
          /\ pc' = IF res = "err" THEN "Disconnected" ELSE "IdleDone"
    /\ UNCHANGED <<backoff, can_idle, exitCode, stdout>>
    /\ UNCHANGED bvars
    /\ UNCHANGED cvars

\* main.rs:179-183  idle.wait_with_timeout(KEEP_ALIVE): returns Ok on a
\* server notification or when the timeout elapses, Err on a failure
IdleWait ==
    /\ pc = "Idling"
    /\ Len(log) < MaxLog
    /\ \E res \in {"notify", "timeout", "err"} :
          /\ log' = Append(log, Ev("idle_wait", res, KEEP_ALIVE))
          /\ pc' = IF res = "err" THEN "Disconnected" ELSE "IdleDone"
    /\ UNCHANGED <<backoff, can_idle, exitCode, stdout>>
    /\ UNCHANGED bvars
    /\ UNCHANGED cvars

\* the end of idle as it would be if its error arm did continue 'poll
IdleDoneIgnoresError ==
    /\ pc = "IdleDone"
    /\ Len(log) < MaxLog
    /\ \E res \in {"ok", "err"} :
          /\ log' = Append(log, Ev("idle_done", res, 0))
          /\ pc' = "Observing"
    /\ UNCHANGED <<backoff, can_idle, exitCode, stdout>>
    /\ UNCHANGED bvars
    /\ UNCHANGED cvars

\* main.rs:184-192  idle.done; the loop 'poll starts over at the search
IdleDone ==
    /\ pc = "IdleDone"
    /\ Len(log) < MaxLog
    /\ \E res \in {"ok", "err"} :
          /\ log' = Append(log, Ev("idle_done", res, 0))
          /\ pc' = IF res = "ok" THEN "Observing" ELSE "Disconnected"
    /\ UNCHANGED <<backoff, can_idle, exitCode, stdout>>
    /\ UNCHANGED bvars
    /\ UNCHANGED cvars

\* ------------------------------------------------ stand-alone Backoff
Delays == 1..MaxDelay

\* all slices of at most MaxLen delays, the empty one included
Schedules == UNION {[1..n -> Delays] : n \in 0..MaxLen}

\* backoff.rs: Backoff::new on any slice (the Watcher does not run)
InitBackoff ==
    /\ WInit
    /\ CIdle
    /\ \E v \in Schedules : b = BackoffNew(v)
    /\ bstat = "ok"
    /\ rets = <<>>
    /\ nresets = 0
    /\ ncalls = 0
    /\ nrets = 0

\* a call b.next() of backoff.rs
CallNext ==
    /\ bstat = "ok"
    /\ Len(rets) < MaxCalls
    /\ LET r == BackoffNext(b) IN
       IF r.panic
       THEN bstat' = "panicked" /\ UNCHANGED <<b, rets, nrets>>
       ELSE /\ b' = r.b
            /\ rets' = Append(rets, r.ret)
            /\ nrets' = nrets + 1
            /\ UNCHANGED bstat
    /\ ncalls' = ncalls + 1
    /\ UNCHANGED nresets
    /\ UNCHANGED wvars
    /\ UNCHANGED cvars

\* a call b.reset() of backoff.rs
CallReset ==
    /\ bstat = "ok"
    /\ nresets < MaxResets
    /\ b' = BackoffReset(b)
    /\ rets' = <<>>
    /\ nresets' = nresets + 1
    /\ UNCHANGED <<bstat, ncalls, nrets>>
    /\ UNCHANGED wvars
    /\ UNCHANGED cvars

NextBackoff ==
    \/ CallNext
    \/ CallReset

SpecBackoff == InitBackoff /\ [][NextBackoff]_vars

\* main.rs: Backoff::new on any slice (the Watcher does not run)
InitMainBackoff ==
    /\ WInit
    /\ CIdle
    /\ \E v \in Schedules : b = MainBackoffNew(v)
    /\ bstat = "ok"
    /\ rets = <<>>
    /\ nresets = 0
    /\ ncalls = 0
    /\ nrets = 0

\* a call b.next() of main.rs's Backoff
MainCallNext ==
    /\ bstat = "ok"
    /\ Len(rets) < MaxCalls
    /\ LET r == MainBackoffNext(b) IN
       IF r.panic
       THEN bstat' = "panicked" /\ UNCHANGED <<b, rets, nrets>>
       ELSE /\ b' = r.b
            /\ rets' = Append(rets, r.ret)
            /\ nrets' = nrets + 1
            /\ UNCHANGED bstat
    /\ ncalls' = ncalls + 1
    /\ UNCHANGED nresets
    /\ UNCHANGED wvars
    /\ UNCHANGED cvars

\* a call b.reset() of main.rs's Backoff
MainCallReset ==
    /\ bstat = "ok"
    /\ nresets < MaxResets
    /\ b' = MainBackoffReset(b)
    /\ rets' = <<>>
    /\ nresets' = nresets + 1
    /\ UNCHANGED <<bstat, ncalls, nrets>>
    /\ UNCHANGED wvars
    /\ UNCHANGED cvars

NextMainBackoff ==
    \/ MainCallNext
    \/ MainCallReset

SpecMainBackoff == InitMainBackoff /\ [][NextMainBackoff]_vars

TypeOKBackoff ==
    /\ b.i \in 0..MaxLen
    /\ bstat \in {"ok", "panicked"}
    /\ Len(rets) <= MaxCalls
    /\ nresets \in 0..MaxResets

\* ------------------------------------------------------ strings of Rust
\* A string is the sequence of its characters (one-character strings).
NL == "\n"
\* the backquote character, spelled out because a TLA+ string cannot hold it
BQ == "backquote"
\* a byte that is not valid UTF-8, as one element of the stream
BAD == "invalid-utf8"

\* char::is_whitespace, on the characters the inputs use
IsWhite(c) == c \in {" ", NL, "\t", "\r"}

RECURSIVE TrimStart(_)
TrimStart(s) ==
    IF s # <<>> /\ IsWhite(Head(s)) THEN TrimStart(Tail(s)) ELSE s

RECURSIVE TrimEnd(_)
TrimEnd(s) ==
    IF s # <<>> /\ IsWhite(s[Len(s)])
    THEN TrimEnd(SubSeq(s, 1, Len(s) - 1))
    ELSE s

\* str::trim
Trim(s) == TrimEnd(TrimStart(s))

\* str::starts_with
StartsWith(s, p) == Len(s) >= Len(p) /\ SubSeq(s, 1, Len(p)) = p

\* str::strip_prefix, where StartsWith(s, p)
StripPrefix(s, p) == SubSeq(s, Len(p) + 1, Len(s))

\* str::find(char): the 1-based position of the first c in s, 0 for None
Find(s, c) ==
    IF \E k \in 1..Len(s) : s[k] = c
    THEN CHOOSE k \in 1..Len(s) : s[k] = c /\ \A j \in 1..(k - 1) : s[j] # c
    ELSE 0

DigitChars == <<"0", "1", "2", "3", "4", "5", "6", "7", "8", "9">>
IsDigit(c) == \E k \in 1..10 : DigitChars[k] = c
DigitVal(c) == (CHOOSE k \in 1..10 : DigitChars[k] = c) - 1

RECURSIVE Decimal(_)
Decimal(s) ==
    IF s = <<>> THEN 0
    ELSE Decimal(SubSeq(s, 1, Len(s) - 1)) * 10 + DigitVal(s[Len(s)])

\* str::parse::<u16>: an optional '+', then one or more decimal digits and
\* nothing else (no whitespace), of value at most u16::MAX
ParseU16(s) ==
    LET body == IF s # <<>> /\ Head(s) = "+" THEN Tail(s) ELSE s IN
    IF body # <<>> /\ (\A k \in 1..Len(body) : IsDigit(body[k]))
            /\ Decimal(body) <= 65535
    THEN [ok |-> TRUE, val |-> Decimal(body)]
    ELSE [ok |-> FALSE, val |-> 0]

\* Stdin::read_line: the characters up to and including the first newline,
\* or all that is left; empty at end of stream
ReadLine(s) ==
    IF Find(s, NL) = 0 THEN s ELSE SubSeq(s, 1, Find(s, NL))

\* Stdin::read_line returns Err: the stream cannot be read at all (stdin is
\* a directory), or the line just read is not valid UTF-8
ReadFails(readable, l) == ~readable \/ (\E k \in 1..Len(l) : l[k] = BAD)

\* ------------------------------------------------- Creds::from_stdin
UserPrefix == <<"u", "s", "e", "r", ":">>
ImapPrefix == <<"i", "m", "a", "p", ":">>

\* A stream line as it is built: what it is meant to say (kind, val and,
\* for a port, its digits with the number they denote) next to its text.
Line(kind, val, hasport, ptext, pvalid, pval) ==
    [kind |-> kind, val |-> val, hasport |-> hasport,
     ptext |-> ptext, pvalid |-> pvalid, pval |-> pval]

StdinLineChoices ==
    { Line("user", <<"b", "o", "b">>, FALSE, <<>>, FALSE, 0),
      Line("imap", <<"h">>, FALSE, <<>>, FALSE, 0),
      Line("imap", <<"h", "2">>, TRUE, <<"1", "4", "3">>, TRUE, 143),
      Line("imap", <<"h">>, TRUE, <<"6", "5", "5", "3", "5">>, TRUE, 65535),
      Line("imap", <<"h">>, TRUE, <<"6", "5", "5", "3", "6">>, FALSE, 0),
      Line("imap", <<"h">>, TRUE, <<"x">>, FALSE, 0),
      Line("other", <<"#">>, FALSE, <<>>, FALSE, 0),
      Line("bad", <<BAD, "u", "s", "e", "r", ":", "b", "o", "b">>,
           FALSE, <<>>, FALSE, 0) }

\* password lines: the text typed, what it is once trimmed, and whether it
\* is valid UTF-8
PassChoices ==
    { [raw |-> <<"p", "w">>, trimmed |-> <<"p", "w">>, valid |-> TRUE],
      [raw |-> <<" ", "p", " ">>, trimmed |-> <<"p">>, valid |-> TRUE],
      [raw |-> <<BAD, "p">>, trimmed |-> <<BAD, "p">>, valid |-> FALSE] }

LineText(d) ==
    CASE d.kind = "user" -> UserPrefix \o d.val
      [] d.kind = "imap" ->
            ImapPrefix \o d.val \o (IF d.hasport THEN <<":">> \o d.ptext ELSE <<>>)
      [] OTHER -> d.val

RECURSIVE JoinLines(_)
\* the lines of ds, each followed by a newline
JoinLines(ds) ==
    IF ds = <<>> THEN <<>> ELSE LineText(Head(ds)) \o <<NL>> \o JoinLines(Tail(ds))

\* the characters of a stream; term says whether its last line ends in a
\* newline
StreamText(pass, ds, term) ==
    LET all == pass.raw \o <<NL>> \o JoinLines(ds) IN
    IF term THEN all ELSE SubSeq(all, 1, Len(all) - 1)

\* readable is FALSE for a stdin whose every read fails (a directory)
StdinInputs ==
    { [kind |-> "stdin", pass |-> pw, lines |-> ds, term |-> t,
       readable |-> r] :
        pw \in PassChoices,
        ds \in UNION {[1..n -> StdinLineChoices] : n \in 0..MaxLines},
        t \in BOOLEAN,
        r \in BOOLEAN }

\* creds.rs:15-20  from_stdin is entered with a stream waiting on stdin
InitStdin ==
    /\ WInit
    /\ BIdle
    /\ \E inp \in StdinInputs :
          /\ cinput = inp
          /\ cin = StreamText(inp.pass, inp.lines, inp.term)
    /\ cred = CredsDefault
    /\ cstat = "pass"

\* creds.rs:21-22  the first line, trimmed, is the password; a failed read
\* is returned as the error (the ? of line 21)
StdinReadPass ==
    /\ cstat = "pass"
    /\ LET l == ReadLine(cin) IN
          /\ cin' = SubSeq(cin, Len(l) + 1, Len(cin))
          /\ IF ReadFails(cinput.readable, l)
             THEN cstat' = "err" /\ UNCHANGED cred
             ELSE /\ cred' = [cred EXCEPT !.pass = Trim(l)]
                  /\ cstat' = "lines"
    /\ UNCHANGED cinput
    /\ UNCHANGED <<wvars, bvars>>

\* creds.rs:24-44  one pass of the while loop, or its end: at the end of
\* the stream (line 25) or at a read that fails (the while let of line 24),
\* both returning the Credentials gathered so far
StdinReadLine ==
    /\ cstat = "lines"
    /\ LET l == ReadLine(cin) IN
          /\ cin' = SubSeq(cin, Len(l) + 1, Len(cin))
          /\ IF ReadFails(cinput.readable, l) \/ Len(l) = 0
             THEN cstat' = "ok" /\ UNCHANGED cred
             ELSE IF StartsWith(l, UserPrefix)
             THEN /\ cred' = [cred EXCEPT !.user = StripPrefix(l, UserPrefix)]
                  /\ UNCHANGED cstat
             ELSE IF StartsWith(l, ImapPrefix)
             THEN LET h == StripPrefix(l, ImapPrefix)
                      n == Find(h, ":")
                      head == SubSeq(h, 1, n - 1)
                      tail == SubSeq(h, n + 1, Len(h))
                  IN  IF n = 0
                      THEN cred' = [cred EXCEPT !.host = h] /\ UNCHANGED cstat
                      ELSE IF ParseU16(tail).ok
                      THEN /\ cred' = [cred EXCEPT !.host = head,
                                                   !.port = ParseU16(tail).val]
                           /\ UNCHANGED cstat
                      ELSE cstat' = "err" /\ cred' = [cred EXCEPT !.host = h]
             ELSE UNCHANGED <<cred, cstat>>
    /\ UNCHANGED cinput
    /\ UNCHANGED <<wvars, bvars>>

NextStdin ==
    \/ StdinReadPass
    \/ StdinReadLine

SpecStdin == InitStdin /\ [][NextStdin]_vars

\* -------------------------------------------------- Creds::from_mutt
\* str::contains
Contains(s, sub) ==
    \E k \in 0..(Len(s) - Len(sub)) : SubSeq(s, k + 1, k + Len(sub)) = sub

RECURSIVE TrimMatches(_, _)
\* str::trim_matches(char)
TrimMatches(s, c) ==
    IF s # <<>> /\ Head(s) = c THEN TrimMatches(Tail(s), c)
    ELSE IF s # <<>> /\ s[Len(s)] = c
    THEN TrimMatches(SubSeq(s, 1, Len(s) - 1), c)
    ELSE s

\* creds.rs:59, 77, 84  v.trim().trim_matches('\'').trim_matches('"')
Unquote(v) == TrimMatches(TrimMatches(Trim(v), "'"), "\"")

RECURSIVE StrLines(_)
\* str::lines: the lines of s without their terminators ("\n" or "\r\n");
\* a final line needs none
StrLines(s) ==
    IF s = <<>> THEN <<>>
    ELSE LET l == ReadLine(s)
             body == IF l[Len(l)] = NL THEN SubSeq(l, 1, Len(l) - 1) ELSE l
             line == IF l[Len(l)] = NL /\ body # <<>> /\ body[Len(body)] = "\r"
                     THEN SubSeq(body, 1, Len(body) - 1)
                     ELSE body
         IN  <<line>> \o StrLines(SubSeq(s, Len(l) + 1, Len(s)))

\* creds.rs:85-91  urlparse::urlparse (external crate), on URLs of the form
\* scheme://host[:port][/path]: hostname is the text between "//" and the
\* first ':' or '/', port the u16 after the ':' ; each None (here: has = FALSE)
\* when missing or unparsable
UrlParse(raw) ==
    LET c == Find(raw, ":")
        hasNet == c > 0 /\ Len(raw) >= c + 2 /\ raw[c + 1] = "/" /\ raw[c + 2] = "/"
        rest == IF hasNet THEN SubSeq(raw, c + 3, Len(raw)) ELSE <<>>
        sl == Find(rest, "/")
        netloc == IF sl = 0 THEN rest ELSE SubSeq(rest, 1, sl - 1)
        pc0 == Find(netloc, ":")
        hostname == IF pc0 = 0 THEN netloc ELSE SubSeq(netloc, 1, pc0 - 1)
        ptxt == IF pc0 = 0 THEN <<>> ELSE SubSeq(netloc, pc0 + 1, Len(netloc))
    IN  [hasHost |-> hostname # <<>>, hostname |-> hostname,
         hasPort |-> ParseU16(ptxt).ok, port |-> ParseU16(ptxt).val]

KeyPass == <<"i", "m", "a", "p", "_", "p", "a", "s", "s">>
KeyUser == <<"i", "m", "a", "p", "_", "u", "s", "e", "r">>
KeyFolder == <<"f", "o", "l", "d", "e", "r">>

\* what running /bin/sh -c <command> can give back: the spawn fails, or
\* the command's standard output (none, or a line)
ShellOutcomes ==
    { [err |-> TRUE, out |-> <<>>],
      [err |-> FALSE, out |-> <<>>],
      [err |-> FALSE, out |-> <<"s", "3", NL>>] }

\* a file line as it is built: the directive it is (or "other") and its text
FileLineChoices ==
    { [kind |-> "user", text |-> <<"s", "e", "t", " ", "i", "m", "a", "p", "_", "u", "s", "e", "r", " ", "=", " ", "'", "u", "'">>],
      [kind |-> "pass", text |-> <<"i", "m", "a", "p", "_", "p", "a", "s", "s", "=", "\"", "p", "\"">>],
      [kind |-> "pass", text |-> <<"i", "m", "a", "p", "_", "p", "a", "s", "s", "=", BQ, "c", BQ>>],
      [kind |-> "folder", text |-> <<"f", "o", "l", "d", "e", "r", "=", "i", "m", "a", "p", "s", ":", "/", "/", "h", ":", "1", "4", "3", "/">>],
      [kind |-> "folder", text |-> <<"f", "o", "l", "d", "e", "r", " ", "=", " ", "i", "m", "a", "p", "s", ":", "/", "/", "h", "2", "/">>],
      [kind |-> "other", text |-> <<"#", " ", "x">>],
      [kind |-> "other", text |-> <<"i", "m", "a", "p", "_", "u", "s", "e", "r">>] }

RECURSIVE JoinFile(_)
JoinFile(ds) ==
    IF ds = <<>> THEN <<>> ELSE Head(ds).text \o <<NL>> \o JoinFile(Tail(ds))

\* access: "ok", "noent" (File::open fails) or "badread" (read_to_string
\* fails)
MuttInputs ==
    { [kind |-> "mutt", access |-> a, lines |-> ds] :
        a \in {"ok", "noent", "badread"},
        ds \in UNION {[1..n -> FileLineChoices] : n \in 0..MaxFileLines} }

\* creds.rs:47-48  from_mutt is entered with a path
InitMutt ==
    /\ WInit
    /\ BIdle
    /\ cinput \in MuttInputs
    /\ cin = <<>>
    /\ cred = CredsDefault
    /\ cstat = "open"

\* creds.rs:49  File::open(conf).await?: the first await of from_mutt
MuttOpen ==
    /\ cstat = "open"
    /\ cstat' = IF cinput.access = "noent" THEN "err" ELSE "read"
    /\ UNCHANGED <<cinput, cin, cred>>
    /\ UNCHANGED <<wvars, bvars>>

\* creds.rs:49-55  read_to_string(&mut c).await? on the open file: the
\* second await; what was read is split into lines
MuttRead ==
    /\ cstat = "read"
    /\ IF cinput.access = "badread"
       THEN cstat' = "err" /\ UNCHANGED cin
       ELSE cstat' = "scan" /\ cin' = StrLines(JoinFile(cinput.lines))
    /\ UNCHANGED <<cinput, cred>>
    /\ UNCHANGED <<wvars, bvars>>

\* the value of a key = value line: what follows the first '='
AfterEq(l) == SubSeq(l, Find(l, "=") + 1, Len(l))

\* creds.rs:56-72  the imap_pass arm on line l, the shell giving sh;
\* yields [stat, pass]
PassArm(l, pass, sh) ==
    IF ~(Contains(l, KeyPass) /\ Find(l, "=") > 0)
    THEN [stat |-> "scan", pass |-> pass]
    ELSE LET v == Unquote(AfterEq(l)) IN
         IF ~StartsWith(v, <<BQ>>)
         THEN [stat |-> "scan", pass |-> v]
         ELSE IF sh.err THEN [stat |-> "err", pass |-> v]
         ELSE IF StrLines(sh.out) = <<>> THEN [stat |-> "panic", pass |-> v]
         ELSE [stat |-> "scan", pass |-> StrLines(sh.out)[1]]

\* creds.rs:74-79  the imap_user arm
UserArm(l, user) ==
    IF Contains(l, KeyUser) /\ Find(l, "=") > 0
    THEN Unquote(AfterEq(l))
    ELSE user

\* creds.rs:81-93  the folder arm; yields [host, port]
FolderArm(l, host, port) ==
    IF Contains(l, KeyFolder) /\ Find(l, "=") > 0
    THEN LET url == UrlParse(Unquote(AfterEq(l))) IN
         [host |-> IF url.hasHost THEN url.hostname ELSE host,
          port |-> IF url.hasPort THEN url.port ELSE port]
    ELSE [host |-> host, port |-> port]

\* creds.rs:55-101  one pass of the for loop, or its end
MuttLine ==
    /\ cstat = "scan"
    /\ IF cin = <<>>
       THEN cstat' = "ok" /\ UNCHANGED <<cin, cred>>
       ELSE \E sh \in ShellOutcomes :
              LET l == Head(cin)
                  pa == PassArm(l, cred.pass, sh)
                  fa == FolderArm(l, cred.host, cred.port)
              IN  /\ cin' = Tail(cin)
                  /\ cstat' = pa.stat
                  /\ cred' = IF pa.stat = "scan"
                             THEN [host |-> fa.host, port |-> fa.port,
                                   user |-> UserArm(l, cred.user),
                                   pass |-> pa.pass]
                             ELSE [cred EXCEPT !.pass = pa.pass]
    /\ UNCHANGED cinput
    /\ UNCHANGED <<wvars, bvars>>

NextMutt ==
    \/ MuttOpen
    \/ MuttRead
    \/ MuttLine

SpecMutt == InitMutt /\ [][NextMutt]_vars

\* ------------------------------------ Creds::from_mutt of main.rs, start-up
\* main.rs:52-57  the imap_pass arm: the value is taken as it is written,
\* backquotes included (no command is run)
MainPassArm(l, pass) ==
    IF Contains(l, KeyPass) /\ Find(l, "=") > 0
    THEN Unquote(AfterEq(l))
    ELSE pass

\* main.rs:59-64  the imap_user arm
MainUserArm(l, user) ==
    IF Contains(l, KeyUser) /\ Find(l, "=") > 0
    THEN Unquote(AfterEq(l))
    ELSE user

\* main.rs:66-78  the folder arm; yields [host, port]
MainFolderArm(l, host, port) ==
    IF Contains(l, KeyFolder) /\ Find(l, "=") > 0
    THEN LET url == UrlParse(Unquote(AfterEq(l))) IN
         [host |-> IF url.hasHost THEN url.hostname ELSE host,
          port |-> IF url.hasPort THEN url.port ELSE port]
    ELSE [host |-> host, port |-> port]

RECURSIVE MainMuttScan(_, _)
\* main.rs:47-86  the for loop over the lines ls, from the locals c, and
\* the Creds it returns (the loop awaits nothing)
MainMuttScan(ls, c) ==
    IF ls = <<>> THEN c
    ELSE LET l == Head(ls)
             fa == MainFolderArm(l, c.host, c.port)
         IN  MainMuttScan(Tail(ls),
                          [host |-> fa.host, port |-> fa.port,
                           user |-> MainUserArm(l, c.user),
                           pass |-> MainPassArm(l, c.pass)])

\* the configuration files the Watcher is started on: an empty one, and one
\* with the three directives, the password between backquotes
ConfFiles ==
    { <<>>,
      << [kind |-> "user", text |-> <<"s", "e", "t", " ", "i", "m", "a", "p", "_", "u", "s", "e", "r", " ", "=", " ", "'", "u", "'">>],
         [kind |-> "pass", text |-> <<"i", "m", "a", "p", "_", "p", "a", "s", "s", "=", BQ, "c", BQ>>],
         [kind |-> "folder", text |-> <<"f", "o", "l", "d", "e", "r", "=", "i", "m", "a", "p", "s", ":", "/", "/", "h", ":", "1", "4", "3", "/">>] >> }

\* how the program is started: without an argument, or with the path of a
\* file that is missing ("noent"), unreadable as text ("badread") or "ok";
\* unicode is FALSE when an argument given (the program's name or the
\* path) is not valid Unicode
ConfInputs ==
    { [kind |-> "conf", argv |-> g, unicode |-> u, access |-> "ok",
       lines |-> <<>>] : g \in BOOLEAN, u \in BOOLEAN }
    \cup { [kind |-> "conf", argv |-> TRUE, unicode |-> TRUE, access |-> a,
            lines |-> ds] :
             a \in {"ok", "noent", "badread"}, ds \in ConfFiles }

\* main.rs:96-99  the process starts
Init ==
    /\ WInit
    /\ BIdle
    /\ cinput \in ConfInputs
    /\ cin = <<>>
    /\ cred = CredsDefault
    /\ cstat = "idle"

\* main.rs:100-108  the configuration path is the first argument; without
\* it the process exits with status 1. std::env::Args::next panics on an
\* argument that is not valid Unicode (lines 101 and 102)
Args ==
    /\ pc = "Start"
    /\ IF ~cinput.unicode
       THEN /\ pc' = "panicked"
            /\ exitCode' = 101
            /\ log' = Append(log, Ev("args", "panic", 0))
            /\ UNCHANGED cstat
       ELSE IF cinput.argv
       THEN /\ pc' = "OpeningConfig"
            /\ cstat' = "open"
            /\ log' = Append(log, Ev("args", "ok", 0))
            /\ UNCHANGED exitCode
       ELSE /\ pc' = "exited"
            /\ exitCode' = 1
            /\ log' = Append(log, Ev("args", "err", 0))
            /\ UNCHANGED cstat
    /\ UNCHANGED <<backoff, can_idle, stdout>>
    /\ UNCHANGED <<cinput, cin, cred>>
    /\ UNCHANGED bvars

\* main.rs:45  File::open(conf).await?, the first await of from_mutt; its
\* Err is the exit(1) of main.rs:110-116
OpenConfig ==
    /\ pc = "OpeningConfig"
    /\ IF cinput.access = "noent"
       THEN /\ pc' = "exited"
            /\ exitCode' = 1
            /\ cstat' = "err"
            /\ log' = Append(log, Ev("open_config", "err", 0))
       ELSE /\ pc' = "ReadingConfig"
            /\ cstat' = "read"
            /\ log' = Append(log, Ev("open_config", "ok", 0))
            /\ UNCHANGED exitCode
    /\ UNCHANGED <<backoff, can_idle, stdout>>
    /\ UNCHANGED <<cinput, cin, cred>>
    /\ UNCHANGED bvars

\* main.rs:45-87, 110-118  read_to_string(&mut c).await?, the second await
\* of from_mutt: on Err the exit(1) of main.rs:110-116, else the scan of
\* the lines read, the Creds it returns and the Backoff of line 118
ReadConfig ==
    /\ pc = "ReadingConfig"
    /\ IF cinput.access = "badread"
       THEN /\ pc' = "exited"
            /\ exitCode' = 1
            /\ cstat' = "err"
            /\ log' = Append(log, Ev("read_config", "err", 0))
            /\ UNCHANGED <<cred, backoff>>
       ELSE /\ pc' = "Disconnected"
            /\ cstat' = "ok"
            /\ cred' = MainMuttScan(StrLines(JoinFile(cinput.lines)),
                                    CredsDefault)
            /\ backoff' = MainBackoffNew(Schedule)
            /\ log' = Append(log, Ev("read_config", "ok", 0))
            /\ UNCHANGED exitCode
    /\ UNCHANGED <<can_idle, stdout>>
    /\ UNCHANGED <<cinput, cin>>
    /\ UNCHANGED bvars

Next ==
    \/ Args
    \/ OpenConfig
    \/ ReadConfig
    \/ Sleep
    \/ Connect
    \/ Login
    \/ Capabilities
    \/ Examine
    \/ Search
    \/ PollSleep
    \/ IdleInit
    \/ IdleWait
    \/ IdleDone

Spec == Init /\ [][Next]_vars

\* main.rs:179  the timer of wait_with_timeout elapses: the one outcome of
\* the idle wait that needs nothing from the server
IdleTimeout ==
    /\ IdleWait
    /\ log'[Len(log')].res = "timeout"

\* the Watcher with the progress its own timer guarantees
SpecLive == Init /\ [][Next]_vars /\ WF_vars(IdleTimeout)

TypeOK ==
    /\ pc \in {"Start", "OpeningConfig", "ReadingConfig", "Disconnected",
               "Connecting", "Authenticating",
               "ProbingCapabilities", "SelectingMailbox", "Observing",
               "Polling", "IdleInit", "Idling", "IdleDone",
               "exited", "panicked"}
    /\ backoff.i \in 0..Len(Schedule)
    /\ can_idle \in BOOLEAN
    /\ exitCode \in {-1, 1, 2, 101}
    /\ Len(log) <= MaxLog

\* ================================================================ claims

\* C1 (refuted by main.rs): in every reachable state of the Watcher the
\* cursor of its Backoff is a valid index into the schedule, so the next
\* backoff.next() cannot index out of bounds.
C1_CursorValid == backoff.i < Len(backoff.v)

\* C2 (refuted by main.rs's Backoff::next): on a non-empty schedule no call
\* of next() panics, and the k-th value returned since construction or the
\* last reset is v[k] for k <= len and v[len] afterwards.
C2_Determinism ==
    Len(b.v) > 0 =>
        /\ bstat = "ok"
        /\ \A k \in 1..Len(rets) : rets[k] = b.v[Min(k, Len(b.v))]

\* C3: on a non-empty schedule, whatever calls came before, after reset()
\* the first next() returns d0 and the second returns d1 (d0 when the
\* schedule has one entry); neither panics.
C3_ResetRestarts ==
    (nresets > 0 /\ Len(b.v) > 0) =>
        /\ bstat = "ok"
        /\ (Len(rets) >= 1 => rets[1] = b.v[1])
        /\ (Len(rets) >= 2 => rets[2] = b.v[Min(2, Len(b.v))])

\* C3 witness: next() was called before a reset() and twice after it, on a
\* schedule whose first two delays differ
C3_Witness ==
    /\ nresets > 0
    /\ Len(b.v) >= 2
    /\ b.v[1] # b.v[2]
    /\ Len(rets) >= 2
    /\ nrets >= Len(rets) + 2

\* ------------------------------------------------- reading the history
IsSleep(k) == log[k].op = "sleep"
ConnFail(k) == log[k].op = "connect" /\ log[k].res # "ok"
IsOk(k, op) == log[k].op = op /\ log[k].res = "ok"
\* an emitted observation: a search that succeeded and whose status line
\* was printed
IsObs(e) == e.op = "search" /\ e.res = "ok"
Last == log[Len(log)]

\* the backoff sleep at p is the first one of the run, or the first one
\* after an observation (which reset the cursor)
FreshSleep(p) ==
    /\ IsSleep(p)
    /\ \/ \A q \in 1..(p - 1) : ~IsSleep(q)
       \/ \E q \in 1..(p - 1) :
             IsObs(log[q]) /\ \A r \in (q + 1)..(p - 1) : ~IsSleep(r)

\* from the sleep at p: three attempts whose connect fails, then an attempt
\* that goes through connect, login, capabilities, examine and search
ThreeFailsThenSuccess(p) ==
    /\ p + 11 <= Len(log)
    /\ \A j \in 0..3 : IsSleep(p + 2 * j)
    /\ \A j \in 0..2 : ConnFail(p + 2 * j + 1)
    /\ IsOk(p + 7, "connect")
    /\ IsOk(p + 8, "login")
    /\ log[p + 9].op = "capabilities" /\ log[p + 9].res # "err"
    /\ IsOk(p + 10, "examine")
    /\ IsObs(log[p + 11])

\* C4: when three connects in a row fail starting from a fresh or just
\* reset cursor and the fourth cycle reaches an observation, the delays
\* slept before the four attempts are d0, d1, d2, d3, and the first backoff
\* sleep after that observation is d0 again.
C4_ThreeFailuresThenReset ==
    \A p \in 1..Len(log) :
        (FreshSleep(p) /\ ThreeFailsThenSuccess(p)) =>
            /\ \A j \in 0..3 :
                  log[p + 2 * j].res = "ok" /\ log[p + 2 * j].n = Schedule[j + 1]
            /\ \A q \in (p + 12)..Len(log) :
                  (IsSleep(q) /\ \A r \in (p + 12)..(q - 1) : ~IsSleep(r)) =>
                      log[q].res = "ok" /\ log[q].n = Schedule[1]

\* C4 witness: the scenario happened after an earlier observation, and the
\* Watcher has since reconnected
C4_Witness ==
    \E p \in 2..Len(log) :
        /\ \E q \in 1..(p - 1) : IsObs(log[q])
        /\ FreshSleep(p)
        /\ ThreeFailsThenSuccess(p)
        /\ \E q \in (p + 12)..Len(log) : IsSleep(q)

\* C5 (refuted by main.rs:141-144): a failed capability query after a
\* successful login puts the Watcher back in Disconnected, to be retried by
\* the outer loop, and the process keeps running.
C5_CapabilityFailureRetried ==
    (Len(log) > 0 /\ Last.op = "capabilities" /\ Last.res = "err") =>
        pc = "Disconnected" /\ exitCode = -1

\* C6 (refuted by main.rs:123-128): a TLS failure while connecting ends the
\* process with a non-zero status and nothing is attempted after it, unlike
\* a transport failure, which is retried.
C6_SecurityFailureFatal ==
    \A k \in 1..Len(log) :
        (log[k].op = "connect" /\ log[k].res = "tls") =>
            k = Len(log) /\ pc = "exited" /\ exitCode > 0

\* the observations of the run, oldest first
Observations == SelectSeq(log, IsObs)

\* a search that succeeded (s.search returned Ok), whether its status line
\* was then printed ("ok") or the print panicked ("panic")
Found(e) == e.op = "search" /\ e.res \in {"ok", "panic"}
\* the successful searches of the run, oldest first
Founds == SelectSeq(log, Found)
\* a successful search whose status line could not be written
PrintPanic(e) == e.op = "search" /\ e.res = "panic"
\* such a search ends the process on the spot with status 101
PrintPanicIsFinal ==
    \A k \in 1..Len(log) :
        PrintPanic(log[k]) =>
            k = Len(log) /\ pc = "panicked" /\ exitCode = 101

\* C7: the first rejected login ends the process with status 2: it is the
\* last step of the run (no connect, login or backoff step follows) and no
\* status line is printed after it.
C7_LoginFailureFatal ==
    \A k \in 1..Len(log) :
        (log[k].op = "login" /\ log[k].res = "err") =>
            /\ k = Len(log)
            /\ pc = "exited"
            /\ exitCode = 2
            /\ Len(stdout) = Len(SelectSeq(SubSeq(log, 1, k), IsObs))

\* C7 witness: a login was rejected on a reconnect, after a status line had
\* been printed
C7_Witness ==
    /\ Len(log) > 0
    /\ Last.op = "login" /\ Last.res = "err"
    /\ Len(stdout) > 0
    /\ pc = "exited"

\* C8 (refuted by main.rs:168-171): without IDLE, the step after the poll
\* sleep is the mailbox select (examine), so each observation's search is
\* preceded by a select made since the previous observation.
C8_PollReselects ==
    \A k \in 1..(Len(log) - 1) :
        log[k].op = "poll_sleep" => log[k + 1].op = "examine"

\* C9 as stated (refuted): two consecutive status lines never carry the
\* same count.
C9_NoDuplicateLines ==
    \A k \in 1..(Len(stdout) - 1) : stdout[k].text # stdout[k + 1].text

\* C9 amended: every successful unread search prints exactly one status
\* line, in order and carrying that search's count, whether or not the
\* count changed; the one exception is a line that cannot be written to
\* stdout: that search prints nothing and ends the process at once (status
\* 101), so it is the last step of the run and the only successful search
\* without a line.
C9_OneLinePerObservation ==
    /\ PrintPanicIsFinal
    /\ Len(stdout) = Len(Founds)
                      - (IF Len(log) > 0 /\ PrintPanic(Last) THEN 1 ELSE 0)
    /\ \A k \in 1..Len(stdout) :
          stdout[k] = dump_status(Founds[k].n, TRUE).line

\* C9 witness: two consecutive successful searches with the same count,
\* each printed, the second one after a poll sleep or an idle wake-up, and
\* a later successful search whose line could not be written
C9_Witness ==
    /\ Len(stdout) >= 2
    /\ stdout[Len(stdout)].text = stdout[Len(stdout) - 1].text
    /\ Len(log) >= 4
    /\ PrintPanic(Last)
    /\ Len(Founds) = Len(stdout) + 1
    /\ \E k \in 2..(Len(log) - 1) :
          /\ IsObs(log[k])
          /\ log[k - 1].op \in {"poll_sleep", "idle_done"}
          /\ \A j \in (k + 1)..(Len(log) - 1) : ~IsObs(log[j])

\* C10 as stated (refuted): a Backoff over an empty slice does not exist,
\* the construction itself fails.
C10_EmptyFailsAtConstruction ==
    Len(b.v) = 0 => bstat = "panicked"

\* C10 amended: Backoff::new accepts an empty slice; the first next() on it
\* panics, so no delay is ever returned from an empty schedule (reset()
\* before that changes nothing).
C10_EmptyPanicsOnFirstNext ==
    Len(b.v) = 0 =>
        /\ nrets = 0
        /\ rets = <<>>
        /\ b.i = 0
        /\ (ncalls > 0 => bstat = "panicked" /\ ncalls = 1)

\* C10 witness: next() was called on an empty schedule, after a reset()
C10_Witness ==
    /\ Len(b.v) = 0
    /\ ncalls = 1
    /\ nresets > 0
    /\ bstat = "panicked"

\* ------------------------------------------- what a stream is meant to say
\* the last line of the given kind among ds, 0 when there is none
LastLine(ds, P(_)) ==
    IF \E k \in 1..Len(ds) : P(ds[k])
    THEN CHOOSE k \in 1..Len(ds) :
            P(ds[k]) /\ \A j \in (k + 1)..Len(ds) : ~P(ds[j])
    ELSE 0
IsUserLine(d) == d.kind = "user"
IsImapLine(d) == d.kind = "imap"
IsPortLine(d) == d.kind = "imap" /\ d.hasport
BadPortLine(d) == d.kind = "imap" /\ d.hasport /\ ~d.pvalid

\* the Credentials the stream describes: trimmed password, the value of
\* the last user: line, host of the last imap: line, its port or else 993
StdinExpected(inp) ==
    LET ds == inp.lines
        u == LastLine(ds, IsUserLine)
        h == LastLine(ds, IsImapLine)
        q == LastLine(ds, IsPortLine)
    IN  [host |-> IF h = 0 THEN <<>> ELSE ds[h].val,
         port |-> IF q = 0 THEN 993 ELSE ds[q].pval,
         user |-> IF u = 0 THEN <<>> ELSE ds[u].val,
         pass |-> inp.pass.trimmed]

\* a stream every line of which can be read as text
TextStream(inp) ==
    /\ inp.readable
    /\ inp.pass.valid
    /\ \A k \in 1..Len(inp.lines) : inp.lines[k].kind # "bad"

\* C11 (refuted by creds.rs:28-35): on a stream of newline-terminated lines
\* resolution fails exactly when some imap: line carries a port that is not
\* an unsigned 16-bit decimal, and otherwise yields the trimmed password,
\* the value of user:, and the host and port of imap: (993 without a port).
C11_StdinResolves ==
    (cstat \in {"ok", "err"} /\ cinput.kind = "stdin" /\ cinput.term
        /\ TextStream(cinput)) =>
        /\ cstat = "err" <=> (\E k \in 1..Len(cinput.lines) :
                                    BadPortLine(cinput.lines[k]))
        /\ cstat = "ok" => cred = StdinExpected(cinput)

\* a file has no line of the given directive
Absent(inp, kind) == \A k \in 1..Len(inp.lines) : inp.lines[k].kind # kind

\* C12 (refuted by creds.rs:60-69): from_mutt fails exactly when the file
\* cannot be opened or read; on every readable file it succeeds and each
\* directive the file lacks leaves its field at the default (an empty file
\* gives the all-defaults Credentials).
C12_MuttFailsOnlyOnFileAccess ==
    (cstat \in {"ok", "err", "panic"} /\ cinput.kind = "mutt") =>
        /\ cinput.access # "ok" => cstat = "err"
        /\ cinput.access = "ok" =>
              /\ cstat = "ok"
              /\ Absent(cinput, "pass") => cred.pass = <<>>
              /\ Absent(cinput, "user") => cred.user = <<>>
              /\ Absent(cinput, "folder") => cred.host = <<>> /\ cred.port = 993

\* C13: a printed status line carries the unread indicator (percentage
\* 100) exactly when the count it was printed for is above zero, and the
\* indicator is absent (percentage 0) for a count of zero.
C13_IndicatorIffUnread ==
    \A k \in 1..Len(stdout) :
        k <= Len(Observations) =>
            /\ stdout[k].percentage \in {0, 100}
            /\ stdout[k].percentage = 100 <=> Observations[k].n > 0

\* C13 witness: a line for count 0 and a line for a count above 0 were
\* both printed
C13_Witness ==
    /\ \E k \in 1..Len(stdout) : stdout[k].text = 0 /\ stdout[k].percentage = 0
    /\ \E k \in 1..Len(stdout) : stdout[k].text > 0 /\ stdout[k].percentage = 100

\* the first backoff sleep after step q, 0 when there is none yet
NextSleep(q) ==
    IF \E p \in (q + 1)..Len(log) : IsSleep(p)
    THEN CHOOSE p \in (q + 1)..Len(log) :
            IsSleep(p) /\ \A r \in (q + 1)..(p - 1) : ~IsSleep(r)
    ELSE 0

\* the last observation before step q, 0 when there is none
LastObsBefore(q) ==
    IF \E p \in 1..(q - 1) : IsObs(log[p])
    THEN CHOOSE p \in 1..(q - 1) :
            IsObs(log[p]) /\ \A r \in (p + 1)..(q - 1) : ~IsObs(log[r])
    ELSE 0

\* the backoff sleeps between that observation and step q: what the cursor
\* is at q when nothing has reset it since
SleepsSinceObs(q) ==
    Cardinality({p \in (LastObsBefore(q) + 1)..(q - 1) : IsSleep(p)})

\* C14 as stated (refuted): every successful unread search has its status
\* line and has reset the cursor: there are as many lines as successful
\* searches, the cursor is 0 from each of them until the next backoff
\* sleep, and that sleep is d0.
C14_EverySearchResets ==
    /\ Len(stdout) = Len(Founds)
    /\ \A q \in 1..Len(log) :
          Found(log[q]) =>
              /\ NextSleep(q) = 0 => backoff.i = 0
              /\ NextSleep(q) # 0 =>
                    /\ log[NextSleep(q)].res = "ok"
                    /\ log[NextSleep(q)].n = Schedule[1]

\* C14 amended: each successful unread search whose status line is written
\* prints that one line and resets the cursor at once: from it until the
\* next backoff sleep the cursor is 0 (through poll sleeps, idling and the
\* return to Disconnected), there are as many lines as such searches, and
\* the first backoff sleep after it sleeps d0. A successful search whose
\* line cannot be written prints nothing, leaves the cursor as it was and
\* ends the process at once with status 101.
C14_ObservationResets ==
    /\ Len(stdout) = Len(Observations)
    /\ \A q \in 1..Len(log) :
          /\ IsObs(log[q]) =>
                /\ NextSleep(q) = 0 => backoff.i = 0
                /\ NextSleep(q) # 0 =>
                      /\ log[NextSleep(q)].res = "ok"
                      /\ log[NextSleep(q)].n = Schedule[1]
          /\ PrintPanic(log[q]) =>
                /\ q = Len(log) /\ pc = "panicked" /\ exitCode = 101
                /\ Len(Founds) = Len(stdout) + 1
                /\ backoff.i = SleepsSinceObs(q)

\* C14 witness: an observation reached after two failed attempts (cursor
\* at 3), a reconnect sleep after it, and on the new connection a
\* successful search whose line could not be written, the cursor still
\* where that sleep left it
C14_Witness ==
    /\ Len(log) > 0
    /\ PrintPanic(Last)
    /\ backoff.i = 1
    /\ \E q \in 1..Len(log) :
          /\ IsObs(log[q])
          /\ Len(SelectSeq(SubSeq(log, 1, q), IsObs)) = 1
          /\ \E p \in 1..(q - 1) : IsSleep(p) /\ log[p].n = Schedule[3]
          /\ NextSleep(q) # 0

IsSleepEv(e) == e.op = "sleep"
\* the backoff sleeps of the run, oldest first
Sleeps == SelectSeq(log, IsSleepEv)

\* C15 (refuted through C1's defect): nothing but an observation resets
\* the cursor, so while no observation has been emitted the k-th backoff
\* sleep is d(k-1), and the last delay once the schedule is used up.
C15_AdvancesWithoutObservation ==
    Observations = <<>> =>
        \A k \in 1..Len(Sleeps) :
            /\ Sleeps[k].res = "ok"
            /\ Sleeps[k].n = Schedule[Min(k, Len(Schedule))]

IdleOps == {"idle_init", "idle_wait", "idle_done"}
IdleErr(k) == log[k].op \in IdleOps /\ log[k].res = "err"

\* C16: an error of idle.init, of the idle wait or of idle.done puts the
\* Watcher in Disconnected, and its next steps are the backoff sleep (d0: an
\* observation came just before) and a connect; a notification or timeout
\* is followed by idle.done, and a clean idle.done by the next search on the
\* same session, with no backoff sleep and the cursor untouched.
C16_IdleErrorsReconnect ==
    \A k \in 1..Len(log) :
        /\ IdleErr(k) =>
              /\ k = Len(log) => pc = "Disconnected"
              /\ k < Len(log) => log[k + 1] = Ev("sleep", "ok", Schedule[1])
              /\ k + 1 < Len(log) => log[k + 2].op = "connect"
        /\ (log[k].op = "idle_wait" /\ log[k].res \in {"notify", "timeout"}) =>
              /\ k = Len(log) => pc = "IdleDone"
              /\ k < Len(log) => log[k + 1].op = "idle_done"
        /\ IsOk(k, "idle_done") =>
              /\ k = Len(log) => pc = "Observing" /\ backoff.i = 0
              /\ k < Len(log) => log[k + 1].op = "search"

\* C16 witness: a timeout and a clean idle end led to a second observation,
\* and a later idle.done error led to a sleep and a connect
C16_Witness ==
    /\ \E k \in 2..(Len(log) - 1) :
          /\ IsOk(k, "idle_done")
          /\ log[k - 1].res = "timeout"
          /\ IsObs(log[k + 1])
    /\ \E k \in 1..(Len(log) - 2) :
          /\ log[k].op = "idle_done" /\ log[k].res = "err"
          /\ log[k + 2].op = "connect"

\* C17 (refuted through C1's defect): after a failed examine or search the
\* Watcher is in Disconnected, and its next steps are a backoff sleep that
\* returns a delay and then a connect.
C17_SelectSearchFailureRetried ==
    \A k \in 1..Len(log) :
        (log[k].op \in {"examine", "search"} /\ log[k].res = "err") =>
            /\ k = Len(log) => pc = "Disconnected"
            /\ k < Len(log) => log[k + 1].op = "sleep" /\ log[k + 1].res = "ok"
            /\ k + 1 < Len(log) => log[k + 2].op = "connect"

\* a step that failed in a way the Watcher is to recover from
Recoverable(e) ==
    \/ e.op = "connect" /\ e.res = "io"
    \/ e.op \in {"examine", "search"} \cup IdleOps /\ e.res = "err"
\* a collaborator operation that failed at all (the backoff sleep is the
\* Watcher's own step, not a collaborator's)
Failed(e) ==
    /\ e.op # "sleep"
    /\ e.res \notin {"ok", "idle", "noidle", "notify", "timeout"}

\* C18 (refuted through C1's defect): while every failure so far was a
\* recoverable one (connect, select, search, idle), the Watcher has not
\* stopped.
C18_RecoverableNeverStops ==
    (\A k \in 1..Len(log) : Failed(log[k]) => Recoverable(log[k])) =>
        pc \notin {"exited", "panicked"}

\* the backoff sleep that opened the cycle step k belongs to
CycleStart(k) ==
    CHOOSE p \in 1..k : IsSleep(p) /\ \A r \in (p + 1)..k : ~IsSleep(r)

SessionOps == {"examine", "search"} \cup IdleOps

\* C19: every select, search and idle step runs in a cycle that began, after
\* the last return to Disconnected, with its own successful connect, login
\* and capability probe; and the choice between polling and idling after an
\* observation follows the probe of that same cycle.
C19_FreshSessionPerCycle ==
    /\ \A k \in 1..Len(log) :
          log[k].op \in SessionOps =>
              LET p == CycleStart(k) IN
              /\ p + 3 < k
              /\ IsOk(p + 1, "connect")
              /\ IsOk(p + 2, "login")
              /\ log[p + 3].op = "capabilities"
              /\ log[p + 3].res \in {"idle", "noidle"}
              /\ (IsObs(log[k]) /\ k < Len(log)) =>
                    log[k + 1].op = IF log[p + 3].res = "idle"
                                    THEN "idle_init" ELSE "poll_sleep"
    /\ (Len(log) > 0 /\ IsObs(Last)) =>
          can_idle = (log[CycleStart(Len(log)) + 3].res = "idle")

\* C19 witness: a connection with IDLE was lost, and on the next one,
\* probed without IDLE, an observation was followed by a poll sleep
C19_Witness ==
    \E k \in 1..(Len(log) - 1) :
        /\ IsObs(log[k])
        /\ log[k + 1].op = "poll_sleep"
        /\ \E j \in 1..(k - 1) : log[j].op = "capabilities" /\ log[j].res = "idle"

\* C20: the idle wait ends by itself: whenever the Watcher is idling (and
\* the explored run has a step left) it eventually leaves Idling, for the
\* end of idle or for Disconnected, even if the server never sends
\* anything.
C20_IdleWaitBounded ==
    (pc = "Idling" /\ Len(log) < MaxLog) ~> (pc \in {"IdleDone", "Disconnected"})

\* C20 witness: an idle wait ended by its timeout and the Watcher observed
\* again
C20_Witness ==
    \E k \in 1..(Len(log) - 2) :
        /\ log[k].op = "idle_wait" /\ log[k].res = "timeout"
        /\ IsObs(log[k + 2])
====
